---- MODULE Spec2Model ----
(***************************************************************************)
(* Trade Republic statement parsers of app.py: the cash balance parser,    *)
(* the securities total parser and the position reconstructor; and the     *)
(* handlers that keep their results in the dict STATE: the upload of the   *)
(* two statements, connect_fake and reset_customer.                        *)
(*                                                                         *)
(* A text is the sequence of lines text.splitlines() yields; a line is a   *)
(* string.  Amounts and quantities are decimals [m, e] standing for        *)
(* m / 10^e (binary rounding of float() is not modelled).  Python's None   *)
(* is the empty tuple, a present value v is <<v>>.                         *)
(***************************************************************************)
EXTENDS Integers, Sequences, FiniteSets, TLC

-----------------------------------------------------------------------------
(* Characters *)

Digits == {"0", "1", "2", "3", "4", "5", "6", "7", "8", "9"}

UpperLetters ==
  {"A", "B", "C", "D", "E", "F", "G", "H", "I", "J", "K", "L", "M",
   "N", "O", "P", "Q", "R", "S", "T", "U", "V", "W", "X", "Y", "Z"}

LowerLetters ==
  {"a", "b", "c", "d", "e", "f", "g", "h", "i", "j", "k", "l", "m",
   "n", "o", "p", "q", "r", "s", "t", "u", "v", "w", "x", "y", "z"}

\* \w of the re module, on the characters the texts use
WordChars == Digits \cup UpperLetters \cup LowerLetters \cup {"_"}

\* \s of the re module and the characters str.strip() removes
Whitespace == {" ", "\t"}

None == <<>>

Some(v) == <<v>>

\* the character of s at position i, "" outside the string
At(s, i) == IF i >= 1 /\ i <= Len(s) THEN SubSeq(s, i, i) ELSE ""

-----------------------------------------------------------------------------
(* str operations *)

\* sub in s
Contains(s, sub) ==
  \E i \in 1..(Len(s) - Len(sub) + 1) : SubSeq(s, i, i + Len(sub) - 1) = sub

RECURSIVE lstrip(_)
lstrip(s) ==
  IF Len(s) > 0 /\ At(s, 1) \in Whitespace THEN lstrip(SubSeq(s, 2, Len(s))) ELSE s

RECURSIVE rstrip(_)
rstrip(s) ==
  IF Len(s) > 0 /\ At(s, Len(s)) \in Whitespace
  THEN rstrip(SubSeq(s, 1, Len(s) - 1))
  ELSE s

\* s.strip()
strip(s) == rstrip(lstrip(s))

\* s.replace(old, new) for a one-character old
RECURSIVE replace(_, _, _)
replace(s, old, new) ==
  IF Len(s) = 0 THEN ""
  ELSE (IF At(s, 1) = old THEN new ELSE At(s, 1))
         \o replace(SubSeq(s, 2, Len(s)), old, new)

-----------------------------------------------------------------------------
(* float() on the strings the parsers pass to it *)

DigitVal(c) ==
  CASE c = "0" -> 0 [] c = "1" -> 1 [] c = "2" -> 2 [] c = "3" -> 3
    [] c = "4" -> 4 [] c = "5" -> 5 [] c = "6" -> 6 [] c = "7" -> 7
    [] c = "8" -> 8 [] c = "9" -> 9

\* the integer a string of digits denotes ("" denotes 0)
RECURSIVE DigitsVal(_)
DigitsVal(s) ==
  IF Len(s) = 0 THEN 0
  ELSE 10 * DigitsVal(SubSeq(s, 1, Len(s) - 1)) + DigitVal(At(s, Len(s)))

\* the decimal m / 10^e without trailing zeros in the fraction
RECURSIVE Normal(_, _)
Normal(m, e) ==
  IF e > 0 /\ m % 10 = 0 THEN Normal(m \div 10, e - 1) ELSE [m |-> m, e |-> e]

Zero == [m |-> 0, e |-> 0]

\* position of the first "." of s, 0 when there is none
DotPos(s) ==
  IF \E i \in 1..Len(s) : At(s, i) = "."
  THEN CHOOSE i \in 1..Len(s) : At(s, i) = "." /\ \A j \in 1..(i - 1) : At(s, j) # "."
  ELSE 0

\* float(s) accepts digits, optionally followed by "." and digits
IsFloatLiteral(s) ==
  LET d == DotPos(s) IN
    /\ Len(s) > 0
    /\ \A i \in 1..Len(s) : i # d => At(s, i) \in Digits
    /\ d # 1 \/ Len(s) > 1

\* float(s): None stands for ValueError
float(s) ==
  IF ~IsFloatLiteral(s) THEN None
  ELSE LET d == DotPos(s) IN
    IF d = 0 THEN Some(Normal(DigitsVal(s), 0))
    ELSE Some(Normal(DigitsVal(SubSeq(s, 1, d - 1) \o SubSeq(s, d + 1, Len(s))),
                     Len(s) - d))

-----------------------------------------------------------------------------
(* Regular expressions *)

\* \d{n} at position i
IsDigitRun(s, i, n) ==
  /\ i + n - 1 <= Len(s)
  /\ \A k \in i..(i + n - 1) : At(s, k) \in Digits

\* length of the longest run of digits that starts at position i
RECURSIVE DigitRunLen(_, _)
DigitRunLen(s, i) ==
  IF i <= Len(s) /\ At(s, i) \in Digits THEN 1 + DigitRunLen(s, i + 1) ELSE 0

\* (?:\.\d{3})* from position j: the position after the last group
RECURSIVE SkipGroups(_, _)
SkipGroups(s, j) ==
  IF At(s, j) = "." /\ IsDigitRun(s, j + 1, 3) THEN SkipGroups(s, j + 4) ELSE j

\* (?:\.\d{3})*,\d{2} from position j: the last position matched, or 0
AmountRest(s, j) ==
  LET k == SkipGroups(s, j) IN
    IF At(s, k) = "," /\ IsDigitRun(s, k + 1, 2) THEN k + 2 ELSE 0

\* \d{n} then the rest of the amount pattern, at position i
AmountTry(s, i, n) == IF IsDigitRun(s, i, n) THEN AmountRest(s, i + n) ELSE 0

\* \d{1,3}(?:\.\d{3})*,\d{2} at position i (greedy): last position, or 0
AmountEnd(s, i) ==
  IF AmountTry(s, i, 3) > 0 THEN AmountTry(s, i, 3)
  ELSE IF AmountTry(s, i, 2) > 0 THEN AmountTry(s, i, 2)
  ELSE AmountTry(s, i, 1)

\* re.findall(r"(\d{1,3}(?:\.\d{3})*,\d{2})", s), scanning from position i
RECURSIVE findall_from(_, _)
findall_from(s, i) ==
  IF i > Len(s) THEN <<>>
  ELSE LET e == AmountEnd(s, i) IN
    IF e > 0 THEN <<SubSeq(s, i, e)>> \o findall_from(s, e + 1)
    ELSE findall_from(s, i + 1)

findall_amounts(s) == findall_from(s, 1)

\* \s* from position j: the first position that is not whitespace
RECURSIVE SkipSpaces(_, _)
SkipSpaces(s, j) ==
  IF j <= Len(s) /\ At(s, j) \in Whitespace THEN SkipSpaces(s, j + 1) ELSE j

\* (\d{1,3}(?:\.\d{3})*,\d{2})\s*EUR matches at position i
TotalMatchAt(s, i) ==
  LET e == AmountEnd(s, i) IN
    /\ e > 0
    /\ LET k == SkipSpaces(s, e + 1) IN
         k + 2 <= Len(s) /\ SubSeq(s, k, k + 2) = "EUR"

\* total_regex.search(s): group(1) of the leftmost match, or None
total_regex_search(s) ==
  IF \E i \in 1..Len(s) : TotalMatchAt(s, i)
  THEN LET i == CHOOSE i \in 1..Len(s) :
                  TotalMatchAt(s, i) /\ \A j \in 1..(i - 1) : ~TotalMatchAt(s, j)
       IN Some(SubSeq(s, i, AmountEnd(s, i)))
  ELSE None

\* mutant: the pattern without its two \b
IsinAt_unbounded(s, i) ==
  /\ i + 11 <= Len(s)
  /\ At(s, i) \in UpperLetters
  /\ At(s, i + 1) \in UpperLetters
  /\ \A k \in (i + 2)..(i + 10) : At(s, k) \in UpperLetters \cup Digits
  /\ At(s, i + 11) \in Digits

\* \b([A-Z]{2}[A-Z0-9]{9}\d)\b matches at position i
IsinAt(s, i) ==
  /\ i + 11 <= Len(s)
  /\ i = 1 \/ At(s, i - 1) \notin WordChars
  /\ At(s, i) \in UpperLetters
  /\ At(s, i + 1) \in UpperLetters
  /\ \A k \in (i + 2)..(i + 10) : At(s, k) \in UpperLetters \cup Digits
  /\ At(s, i + 11) \in Digits
  /\ i + 11 = Len(s) \/ At(s, i + 12) \notin WordChars

\* mutant: group(0) of the rightmost match
isin_search_rightmost(s) ==
  IF \E i \in 1..Len(s) : IsinAt(s, i)
  THEN LET i == CHOOSE i \in 1..Len(s) :
                  IsinAt(s, i) /\ \A j \in (i + 1)..Len(s) : ~IsinAt(s, j)
       IN Some(SubSeq(s, i, i + 11))
  ELSE None

\* re.search(r"\b([A-Z]{2}[A-Z0-9]{9}\d)\b", s): group(0) of the leftmost
\* match, or None
isin_search(s) ==
  IF \E i \in 1..Len(s) : IsinAt(s, i)
  THEN LET i == CHOOSE i \in 1..Len(s) :
                  IsinAt(s, i) /\ \A j \in 1..(i - 1) : ~IsinAt(s, j)
       IN Some(SubSeq(s, i, i + 11))
  ELSE None

\* (\d+(?:[\.,]\d+)?)$ matches at position i
QtyMatchAt(s, i) ==
  LET r == DigitRunLen(s, i) IN
    /\ r > 0
    /\ \/ i + r - 1 = Len(s)
       \/ /\ At(s, i + r) \in {".", ","}
          /\ LET r2 == DigitRunLen(s, i + r + 1) IN
               r2 > 0 /\ i + r + r2 = Len(s)

\* re.search(r"(\d+(?:[\.,]\d+)?)$", s): group(1) of the leftmost match, or
\* None
qty_search(s) ==
  IF \E i \in 1..Len(s) : QtyMatchAt(s, i)
  THEN LET i == CHOOSE i \in 1..Len(s) :
                  QtyMatchAt(s, i) /\ \A j \in 1..(i - 1) : ~QtyMatchAt(s, j)
       IN Some(SubSeq(s, i, Len(s)))
  ELSE None

\* mutant: the two replacements in the wrong order
amount_to_float_wrong_order(tok) ==
  float(replace(replace(tok, ",", "."), ".", ""))[1]

\* float(tok.replace(".", "").replace(",", ".")) of an amount token
amount_to_float(tok) == float(replace(replace(tok, ".", ""), ",", "."))[1]

-----------------------------------------------------------------------------
(* Results of a call *)

Pending == [status |-> "pending", value |-> None]

Return(v) == [status |-> "return", value |-> Some(v)]

\* raise ValueError(...)
Raise == [status |-> "raise", value |-> None]

-----------------------------------------------------------------------------
(* parse_tr_cash_statement and parse_tr_securities_statement *)

\* for line in lines: if marker in line: amounts = re.findall(...);
\* if amounts: return float(amounts[-1]...).  The index of the line that
\* returns, 0 when the loop runs to its end.
RECURSIVE amount_line_from(_, _, _)
amount_line_from(ls, marker, i) ==
  IF i > Len(ls) THEN 0
  ELSE IF Contains(ls[i], marker) /\ Len(findall_amounts(ls[i])) > 0 THEN i
  ELSE amount_line_from(ls, marker, i + 1)

amount_line(ls, marker) == amount_line_from(ls, marker, 1)

\* mutant: amounts[0] instead of amounts[-1]
first_amount(line) == amount_to_float(findall_amounts(line)[1])

\* float(amounts[-1].replace(".", "").replace(",", "."))
last_amount(line) ==
  LET amounts == findall_amounts(line) IN amount_to_float(amounts[Len(amounts)])

parse_tr_cash_statement(ls) ==
  IF amount_line(ls, "Conto corrente") > 0
  THEN Return(last_amount(ls[amount_line(ls, "Conto corrente")]))
  ELSE IF amount_line(ls, "Citibank") > 0
  THEN Return(last_amount(ls[amount_line(ls, "Citibank")]))
  ELSE Raise

\* mutant: the total defaults to 0.0 instead of raising
parse_tr_securities_statement_default(ls) ==
  IF amount_line(ls, "NUMERO DI POSIZIONI") > 0
  THEN Return(last_amount(ls[amount_line(ls, "NUMERO DI POSIZIONI")]))
  ELSE Return(Zero)

\* mutant: only the first marker line is looked at
parse_tr_securities_statement_first_only(ls) ==
  IF \E j \in 1..Len(ls) : Contains(ls[j], "NUMERO DI POSIZIONI")
  THEN LET j == CHOOSE j \in 1..Len(ls) :
                  /\ Contains(ls[j], "NUMERO DI POSIZIONI")
                  /\ \A n \in 1..(j - 1) : ~Contains(ls[n], "NUMERO DI POSIZIONI")
       IN IF Len(findall_amounts(ls[j])) > 0 THEN Return(last_amount(ls[j]))
          ELSE Raise
  ELSE Raise

parse_tr_securities_statement(ls) ==
  IF amount_line(ls, "NUMERO DI POSIZIONI") > 0
  THEN Return(last_amount(ls[amount_line(ls, "NUMERO DI POSIZIONI")]))
  ELSE Raise

-----------------------------------------------------------------------------
(* parse_tr_securities_statement_with_positions *)

\* [l.strip() for l in text.splitlines() if l.strip()]
RECURSIVE stripped_lines(_)
stripped_lines(text) ==
  IF Len(text) = 0 THEN <<>>
  ELSE (IF strip(text[1]) # "" THEN <<strip(text[1])>> ELSE <<>>)
         \o stripped_lines(Tail(text))

\* the total loop: the amount of the first marker line the EUR pattern
\* matches, 0.0 when the loop finds none
RECURSIVE total_from(_, _)
total_from(ls, i) ==
  IF i > Len(ls) THEN Zero
  ELSE IF Contains(ls[i], "NUMERO DI POSIZIONI")
          /\ total_regex_search(ls[i]) # None
  THEN amount_to_float(total_regex_search(ls[i])[1])
  ELSE total_from(ls, i + 1)

\* mutant: the break stands outside "if m", the loop stops at the first
\* marker line
find_total_first_marker_only(ls) ==
  LET ms == {j \in 1..Len(ls) : Contains(ls[j], "NUMERO DI POSIZIONI")} IN
    IF ms = {} THEN Zero
    ELSE LET j == CHOOSE x \in ms : \A y \in ms : x <= y IN
      IF total_regex_search(ls[j]) # None
      THEN amount_to_float(total_regex_search(ls[j])[1])
      ELSE Zero

\* mutant: no break, the last marker line the EUR pattern matches wins
find_total_last(ls) ==
  LET ms == {j \in 1..Len(ls) : /\ Contains(ls[j], "NUMERO DI POSIZIONI")
                                /\ total_regex_search(ls[j]) # None} IN
    IF ms = {} THEN Zero
    ELSE LET j == CHOOSE x \in ms : \A y \in ms : x >= y IN
      amount_to_float(total_regex_search(ls[j])[1])

find_total(ls) == total_from(ls, 1)

\* current = {"name": "", "isin": None, "qty": None}
EmptyCurrent == [name |-> "", isin |-> None, qty |-> None]

\* if current["isin"]
HasIsin(cur) == cur.isin # None /\ cur.isin[1] # ""

\* current["qty"] or 0.0
qty_or_zero(qty) == IF qty = None \/ qty[1].m = 0 THEN Zero ELSE qty[1]

\* mutant: the name is emitted without .strip()
Holding_unstripped(cur) ==
  [name |-> cur.name, isin |-> cur.isin[1],
   quantity |-> qty_or_zero(cur.qty), market_value |-> Zero]

\* mutant: the quantity is emitted as market value too
Holding_market_value(cur) ==
  [name |-> strip(cur.name), isin |-> cur.isin[1],
   quantity |-> qty_or_zero(cur.qty), market_value |-> qty_or_zero(cur.qty)]

\* the dict appended to positions
Holding(cur) ==
  [name |-> strip(cur.name), isin |-> cur.isin[1],
   quantity |-> qty_or_zero(cur.qty), market_value |-> Zero]

\* mutant: line.startswith("IVA") instead of "IVA" in line
IsIvaLine_prefix(line) == Len(line) >= 3 /\ SubSeq(line, 1, 3) = "IVA"

\* if "IVA" in line or "P. IVA" in line: continue
IsIvaLine(line) == Contains(line, "IVA") \/ Contains(line, "P. IVA")

\* float(qty_match.group(1).replace(",", ".")), None when it raises or when
\* the pattern does not match
qty_value(line) ==
  IF qty_search(line) = None THEN None
  ELSE float(replace(qty_search(line)[1], ",", "."))

\* mutant: the flush does not reset the name
isin_branch_keeps_name(cur, pos, line) ==
  IF HasIsin(cur)
  THEN [current |-> [cur EXCEPT !.isin = isin_search(line), !.qty = None],
        positions |-> Append(pos, Holding(cur))]
  ELSE [current |-> [cur EXCEPT !.isin = isin_search(line)], positions |-> pos]

\* mutant: the flush does not reset the quantity
isin_branch_keeps_qty(cur, pos, line) ==
  IF HasIsin(cur)
  THEN [current |-> [cur EXCEPT !.isin = isin_search(line), !.name = ""],
        positions |-> Append(pos, Holding(cur))]
  ELSE [current |-> [cur EXCEPT !.isin = isin_search(line)], positions |-> pos]

\* mutant: an identifier equal to that of the open holding is merged into it
isin_branch_merges(cur, pos, line) ==
  IF HasIsin(cur) /\ cur.isin = isin_search(line)
  THEN [current |-> cur, positions |-> pos]
  ELSE IF HasIsin(cur)
  THEN [current |-> [EmptyCurrent EXCEPT !.isin = isin_search(line)],
        positions |-> Append(pos, Holding(cur))]
  ELSE [current |-> [cur EXCEPT !.isin = isin_search(line)], positions |-> pos]

\* the branch of the loop body taken when the line has an ISIN match
isin_branch(cur, pos, line) ==
  IF HasIsin(cur)
  THEN [current |-> [EmptyCurrent EXCEPT !.isin = isin_search(line)],
        positions |-> Append(pos, Holding(cur))]
  ELSE [current |-> [cur EXCEPT !.isin = isin_search(line)], positions |-> pos]

\* mutant: the quantity branch lacks its continue
qty_name_branch_falls_through(cur, pos, line) ==
  IF qty_search(line) # None /\ HasIsin(cur) /\ qty_value(line) # None
  THEN [current |-> [cur EXCEPT !.qty = qty_value(line),
                                !.name = @ \o " " \o line],
        positions |-> pos]
  ELSE IF HasIsin(cur)
  THEN [current |-> [cur EXCEPT !.name = @ \o " " \o line], positions |-> pos]
  ELSE [current |-> cur, positions |-> pos]

\* mutant: quantity and name are taken without testing current["isin"]
qty_name_branch_unguarded(cur, pos, line) ==
  IF qty_search(line) # None /\ qty_value(line) # None
  THEN [current |-> [cur EXCEPT !.qty = qty_value(line)], positions |-> pos]
  ELSE [current |-> [cur EXCEPT !.name = @ \o " " \o line], positions |-> pos]

\* the rest of the loop body: quantity, then name
qty_name_branch(cur, pos, line) ==
  IF qty_search(line) # None /\ HasIsin(cur) /\ qty_value(line) # None
  THEN [current |-> [cur EXCEPT !.qty = qty_value(line)], positions |-> pos]
  ELSE IF HasIsin(cur)
  THEN [current |-> [cur EXCEPT !.name = @ \o " " \o line], positions |-> pos]
  ELSE [current |-> cur, positions |-> pos]

\* mutant: the quantity test is applied before the ISIN test
process_line_qty_first(cur, pos, line) ==
  IF IsIvaLine(line) THEN [current |-> cur, positions |-> pos]
  ELSE IF qty_search(line) # None /\ HasIsin(cur) /\ qty_value(line) # None
  THEN [current |-> [cur EXCEPT !.qty = qty_value(line)], positions |-> pos]
  ELSE IF isin_search(line) # None THEN isin_branch(cur, pos, line)
  ELSE IF HasIsin(cur)
  THEN [current |-> [cur EXCEPT !.name = @ \o " " \o line], positions |-> pos]
  ELSE [current |-> cur, positions |-> pos]

\* one iteration of the reconstruction loop
process_line(cur, pos, line) ==
  IF IsIvaLine(line) THEN [current |-> cur, positions |-> pos]
  ELSE IF isin_search(line) # None THEN isin_branch(cur, pos, line)
  ELSE qty_name_branch(cur, pos, line)

\* mutant: no flush after the loop
final_positions_noflush(cur, pos) == pos

\* the flush after the loop
final_positions(cur, pos) == IF HasIsin(cur) THEN Append(pos, Holding(cur)) ELSE pos

\* the reconstruction loop over lines[i..]
RECURSIVE reconstruct_from(_, _, _, _)
reconstruct_from(cur, pos, ls, i) ==
  IF i > Len(ls) THEN final_positions(cur, pos)
  ELSE LET st == process_line(cur, pos, ls[i]) IN
    reconstruct_from(st.current, st.positions, ls, i + 1)

parse_tr_securities_statement_with_positions(text) ==
  LET ls == stripped_lines(text) IN
    Return([total_value |-> find_total(ls),
            positions |-> reconstruct_from(EmptyCurrent, <<>>, ls, 1)])

-----------------------------------------------------------------------------
(* Inputs *)

\* longest text, in lines
MaxLines == 4

\* all sequences of at most n elements of S
SeqsUpTo(S, n) == UNION {[1..k -> S] : k \in 0..n}

\* lines of the positions of a securities statement: identifiers, name
\* lines, a name line that ends in a number, a quantity line, a VAT footer
\* and a blank line
SecLines ==
  {"US0000000001", "DE000A1EWWW0", "Apple Inc", " Registered Shares ",
   "Class 3", "14", "P. IVA DE000A1EWWW0 12", " "}

\* lines around the summary line of a securities statement
TotalLines ==
  {"NUMERO DI POSIZIONI: 15 62.348,68 EUR", "NUMERO DI POSIZIONI: 2",
   "NUMERO DI POSIZIONI 1,00 2,00", "TOTALE 3,00 EUR", "US0000000001",
   "Apple Inc", "14", "NUMERO DI POSIZIONI P. IVA 9,00 EUR"}

\* lines of a cash statement
CashLines ==
  {"Conto corrente 2.646,02 EUR 4.528,82 EUR", "Conto corrente 7,00",
   "Conto corrente", "conto corrente 9,00", "Citibank 4.716,63 EUR",
   "Citibank", "PANORAMICA 1,00", ""}

\* longest text of the lines below, in lines
MaxShort == 3

\* lines that try the identifier test: an identifier, words that are nearly
\* one (11 characters, lowercase, a longer word that holds one at its end or
\* at its start), two identifiers on one line, a VAT footer with an
\* identifier, and a name line
WordLines ==
  {"DE000A1EWWW0", "DE000A1EWWW", "de000a1ewww0", "XDE000A1EWWW0",
   "DE000A1EWWW01", "US0000000001 DE000A1EWWW0", "P. IVA DE000A1EWWW0",
   "Apple Inc"}

\* lines that try the quantity test: an identifier, an identifier inside a
\* line that ends in a number, a name line, two quantity lines and a name
\* line that ends in a number
QuantityLines ==
  {"DE000A1EWWW0", "Buy US0000000001 7", "Apple Inc", "14", "2,5", "Class 3"}

\* summary lines of a securities statement: one amount before EUR, no
\* amount, two amounts before EUR each, one amount without EUR, two amounts
\* with EUR after the second only, an amount before EUR without the marker,
\* a VAT line with the marker and an amount before EUR, and an identifier
SummaryLines ==
  {"NUMERO DI POSIZIONI: 15 62.348,68 EUR", "NUMERO DI POSIZIONI: 2",
   "NUMERO DI POSIZIONI 1,00 EUR 2,00 EUR", "NUMERO DI POSIZIONI 3,00",
   "NUMERO DI POSIZIONI 4,00 5,00 EUR", "TOTALE 6,00 EUR",
   "NUMERO DI POSIZIONI P. IVA 9,00 EUR", "US0000000001"}

\* number of upload requests in flight at once
MaxRequests == 2

Requests == 1..MaxRequests

\* the files a browser uploads as cash statement
CashFiles == {"cash_conto.pdf", "cash_empty.pdf"}

\* the files a browser uploads as securities statement
SecFiles == {"sec_two.pdf", "sec_nototal.pdf", "sec_broken.pdf"}

\* the text of each file that is a PDF; "sec_broken.pdf" is none
PdfText ==
  [f \in {"cash_conto.pdf", "cash_empty.pdf", "sec_two.pdf", "sec_nototal.pdf"} |->
     CASE f = "cash_conto.pdf" ->
            <<"PANORAMICA", "Conto corrente 2.646,02 EUR 4.528,82 EUR">>
       [] f = "cash_empty.pdf" -> <<"PANORAMICA 1,00">>
       [] f = "sec_two.pdf" ->
            <<"NUMERO DI POSIZIONI: 2 1.234,50 EUR", "US0000000001",
              "Apple Inc", "14", "DE000A1EWWW0", "Class 3">>
       [] f = "sec_nototal.pdf" -> <<"DE000A1EWWW0", "Registered Shares", "2,5">>]

\* amount tokens: one to three digits, groups of "." and three digits, ","
\* and two digits
AmountTokens ==
  {h \o g \o c : h \in {"0", "7", "14", "62", "348", "999"},
                 g \in {"", ".348", ".000"},
                 c \in {",00", ",68", ",05", ",50"}}
  \cup {h \o g \o c : h \in {"1", "9"},
                      g \in {".234.567", ".000.000", ".000.001"},
                      c \in {",00", ",89", ",05"}}

-----------------------------------------------------------------------------
(* State *)

VARIABLES
  cash_text,     \* text of the cash statement
  cash_pc,       \* position in parse_tr_cash_statement
  cash_i,        \* index of the line whose amount is returned, 0 if none
  cash_ret,      \* outcome of parse_tr_cash_statement
  sec_text,      \* text of the securities statement
  sec_ret,       \* outcome of parse_tr_securities_statement
  pos_pc,        \* position in parse_tr_securities_statement_with_positions
  lines,         \* its local lines
  total_value,   \* its local total_value
  idx,           \* number of lines the reconstruction loop has consumed
  current,       \* its local current
  positions,     \* its local positions
  pos_ret,       \* its outcome
  STATE_dict,    \* the module-level dict STATE
  req,           \* the upload_traderepublic requests: position, files, response
  reset,         \* the reset_customer request: position, local, response
  prev,          \* outcomes of the parsers' earlier call on the same texts
  token,         \* an amount token
  conv           \* what each parser makes of the token

cashVars == <<cash_text, cash_pc, cash_i, cash_ret>>

posVars == <<pos_pc, lines, total_value, idx, current, positions, pos_ret>>

secVars == <<sec_text, sec_ret>>

webVars == <<STATE_dict, req, reset>>

amountVars == <<token, conv>>

\* what the parsers leave alone
extVars == <<webVars, prev, amountVars>>

vars == <<cashVars, secVars, posVars, extVars>>

\* a request slot no request occupies
NoRequest == [pc |-> "idle", cash_statement |-> "", securities_statement |-> "",
              status_code |-> 0]

\* reset_customer has not been requested
NoReset == [pc |-> "idle", customer_id |-> None, status_code |-> 0]

\* no parser has converted the token
NoConversion == [cash |-> Pending, securities |-> Pending, positions |-> Pending]

\* no call has started, STATE = {"customer_id": None}
Idle ==
  /\ cash_pc = "start" /\ cash_i = 0 /\ cash_ret = Pending
  /\ sec_ret = Pending
  /\ pos_pc = "start" /\ lines = <<>> /\ total_value = Zero /\ idx = 0
  /\ current = EmptyCurrent /\ positions = <<>> /\ pos_ret = Pending
  /\ STATE_dict = [customer_id |-> None]
  /\ req = [r \in Requests |-> NoRequest]
  /\ reset = NoReset
  /\ prev = None
  /\ conv = NoConversion

\* a securities statement is handed to the two securities parsers
Init ==
  /\ cash_text = <<>>
  /\ sec_text \in SeqsUpTo(SecLines, MaxLines)
  /\ Idle
  /\ token = ""

\* a securities statement whose lines surround the summary line
InitTotal ==
  /\ cash_text = <<>>
  /\ sec_text \in SeqsUpTo(TotalLines, MaxLines)
  /\ Idle
  /\ token = ""

\* a cash statement is handed to the cash parser
InitCash ==
  /\ cash_text \in SeqsUpTo(CashLines, MaxLines)
  /\ sec_text = <<>>
  /\ Idle
  /\ token = ""

\* a securities statement made of lines that try the identifier test
InitWord ==
  /\ cash_text = <<>>
  /\ sec_text \in SeqsUpTo(WordLines, MaxShort)
  /\ Idle
  /\ token = ""

\* a securities statement made of lines that try the quantity test
InitQuantity ==
  /\ cash_text = <<>>
  /\ sec_text \in SeqsUpTo(QuantityLines, MaxShort)
  /\ Idle
  /\ token = ""

\* a securities statement made of summary lines
InitSummary ==
  /\ cash_text = <<>>
  /\ sec_text \in SeqsUpTo(SummaryLines, MaxShort)
  /\ Idle
  /\ token = ""

-----------------------------------------------------------------------------
(* parse_tr_cash_statement, one action per loop *)

\* mutant: the first loop looks for "Citibank"
CashConto_citibank_first ==
  /\ cash_pc = "start"
  /\ LET k == amount_line(cash_text, "Citibank") IN
       IF k > 0
       THEN /\ cash_ret' = Return(last_amount(cash_text[k]))
            /\ cash_i' = k
            /\ cash_pc' = "returned"
       ELSE /\ cash_pc' = "fallback"
            /\ UNCHANGED <<cash_i, cash_ret>>
  /\ UNCHANGED <<cash_text, secVars, posVars>>
  /\ UNCHANGED extVars

\* the loop over the "Conto corrente" lines
CashConto ==
  /\ cash_pc = "start"
  /\ LET k == amount_line(cash_text, "Conto corrente") IN
       IF k > 0
       THEN /\ cash_ret' = Return(last_amount(cash_text[k]))
            /\ cash_i' = k
            /\ cash_pc' = "returned"
       ELSE /\ cash_pc' = "fallback"
            /\ UNCHANGED <<cash_i, cash_ret>>
  /\ UNCHANGED <<cash_text, secVars, posVars>>
  /\ UNCHANGED extVars

\* mutant: a balance of 0.0 instead of the raise
CashCitibank_default ==
  /\ cash_pc = "fallback"
  /\ LET k == amount_line(cash_text, "Citibank") IN
       IF k > 0
       THEN /\ cash_ret' = Return(last_amount(cash_text[k]))
            /\ cash_i' = k
            /\ cash_pc' = "returned_fallback"
       ELSE /\ cash_ret' = Return(Zero)
            /\ cash_pc' = "raised"
            /\ UNCHANGED cash_i
  /\ UNCHANGED <<cash_text, secVars, posVars>>
  /\ UNCHANGED extVars

\* the fallback loop over the "Citibank" lines, and the raise after it
CashCitibank ==
  /\ cash_pc = "fallback"
  /\ LET k == amount_line(cash_text, "Citibank") IN
       IF k > 0
       THEN /\ cash_ret' = Return(last_amount(cash_text[k]))
            /\ cash_i' = k
            /\ cash_pc' = "returned_fallback"
       ELSE /\ cash_ret' = Raise
            /\ cash_pc' = "raised"
            /\ UNCHANGED cash_i
  /\ UNCHANGED <<cash_text, secVars, posVars>>
  /\ UNCHANGED extVars

-----------------------------------------------------------------------------
(* parse_tr_securities_statement, applied once the reconstruction is done *)

SecuritiesStatement ==
  /\ pos_pc = "done"
  /\ sec_ret = Pending
  /\ sec_ret' = parse_tr_securities_statement(sec_text)
  /\ UNCHANGED <<sec_text, cashVars, posVars>>
  /\ UNCHANGED extVars

-----------------------------------------------------------------------------
(* parse_tr_securities_statement_with_positions, line by line *)

\* the split into stripped lines and the total loop
Preprocess ==
  /\ pos_pc = "start"
  /\ lines' = stripped_lines(sec_text)
  /\ total_value' = find_total(lines')
  /\ pos_pc' = "loop"
  /\ UNCHANGED <<idx, current, positions, pos_ret, cashVars, secVars>>
  /\ UNCHANGED extVars

\* one iteration of the reconstruction loop
ProcessLine ==
  /\ pos_pc = "loop"
  /\ idx < Len(lines)
  /\ LET st == process_line(current, positions, lines[idx + 1]) IN
       /\ current' = st.current
       /\ positions' = st.positions
  /\ idx' = idx + 1
  /\ UNCHANGED <<pos_pc, lines, total_value, pos_ret, cashVars, secVars>>
  /\ UNCHANGED extVars

\* the flush after the loop and the return
Finish ==
  /\ pos_pc = "loop"
  /\ idx = Len(lines)
  /\ positions' = final_positions(current, positions)
  /\ pos_ret' = Return([total_value |-> total_value, positions |-> positions'])
  /\ pos_pc' = "done"
  /\ UNCHANGED <<lines, total_value, idx, current, cashVars, secVars>>
  /\ UNCHANGED extVars

-----------------------------------------------------------------------------
(* Specifications *)

Next == Preprocess \/ ProcessLine \/ Finish \/ SecuritiesStatement

Spec == Init /\ [][Next]_vars

SpecTotal == InitTotal /\ [][Next]_vars

NextCash == CashConto \/ CashCitibank

SpecCash == InitCash /\ [][NextCash]_vars

SpecWord == InitWord /\ [][Next]_vars

SpecQuantity == InitQuantity /\ [][Next]_vars

SpecSummary == InitSummary /\ [][Next]_vars

-----------------------------------------------------------------------------
(* The dict STATE and the handlers that write it *)

\* d[k] = v on a dict
dict_set(d, k, v) == [x \in DOMAIN d \cup {k} |-> IF x = k THEN v ELSE d[x]]

\* d.get(k)
dict_get(d, k) == IF k \in DOMAIN d THEN d[k] ELSE None

RECURSIVE Pow10(_)
Pow10(n) == IF n = 0 THEN 1 ELSE 10 * Pow10(n - 1)

\* mutant: the mantissas are added without bringing them to one scale
float_add_unscaled(a, b) ==
  Normal(a.m + b.m, IF a.e > b.e THEN a.e ELSE b.e)

\* a + b on two floats
float_add(a, b) ==
  LET e == IF a.e > b.e THEN a.e ELSE b.e IN
    Normal(a.m * Pow10(e - a.e) + b.m * Pow10(e - b.e), e)

\* extract_text_from_pdf: PdfReader raises on bytes that are no PDF
extract_text_from_pdf(file_bytes) ==
  IF file_bytes \in DOMAIN PdfText THEN Return(PdfText[file_bytes]) ELSE Raise

\* parse_tr_cash_statement on the bytes of each file
cash_of_bytes ==
  [file_bytes \in CashFiles \cup SecFiles |->
     LET text == extract_text_from_pdf(file_bytes) IN
       IF text = Raise THEN Raise ELSE parse_tr_cash_statement(text.value[1])]

\* parse_tr_securities_statement_with_positions on the bytes of each file
positions_of_bytes ==
  [file_bytes \in CashFiles \cup SecFiles |->
     LET text == extract_text_from_pdf(file_bytes) IN
       IF text = Raise THEN Raise
       ELSE parse_tr_securities_statement_with_positions(text.value[1])]

\* the dict upload_traderepublic stores
snapshot(cash_eur, sec) ==
  [cash_eur |-> cash_eur,
   securities_eur |-> sec.total_value,
   total_eur |-> float_add(cash_eur, sec.total_value),
   positions |-> sec.positions]

\* mutant: the balance is stored before the securities statement is parsed
upload_outcome_half_built(state, cash_statement, securities_statement) ==
  LET cash == cash_of_bytes[cash_statement] IN
    IF cash = Raise THEN [state |-> state, status_code |-> 500]
    ELSE LET sec == positions_of_bytes[securities_statement]
             half == dict_set(state, "trade_republic",
                              Some([cash_eur |-> cash.value[1]]))
         IN
      IF sec = Raise THEN [state |-> half, status_code |-> 500]
      ELSE [state |-> dict_set(state, "trade_republic",
                               Some(snapshot(cash.value[1], sec.value[1]))),
            status_code |-> 200]

\* mutant: the holdings are appended to those of the stored snapshot
upload_outcome_appends(state, cash_statement, securities_statement) ==
  LET cash == cash_of_bytes[cash_statement] IN
    IF cash = Raise THEN [state |-> state, status_code |-> 500]
    ELSE LET sec == positions_of_bytes[securities_statement] IN
      IF sec = Raise THEN [state |-> state, status_code |-> 500]
      ELSE LET new == snapshot(cash.value[1], sec.value[1])
               old == dict_get(state, "trade_republic")
           IN [state |-> dict_set(state, "trade_republic",
                          Some(IF old = None THEN new
                               ELSE [new EXCEPT !.positions =
                                       old[1].positions \o new.positions])),
               status_code |-> 200]

\* what the request leaves in STATE and its status: the except branch
\* answers 500 with STATE as it was
upload_outcome(state, cash_statement, securities_statement) ==
  LET cash == cash_of_bytes[cash_statement] IN
    IF cash = Raise THEN [state |-> state, status_code |-> 500]
    ELSE LET sec == positions_of_bytes[securities_statement] IN
      IF sec = Raise THEN [state |-> state, status_code |-> 500]
      ELSE [state |-> dict_set(state, "trade_republic",
                               Some(snapshot(cash.value[1], sec.value[1]))),
            status_code |-> 200]

\* a browser posts two files to /api/brokers/traderepublic
UploadRequest(r) ==
  /\ req[r].pc \in {"idle", "done"}
  /\ \E c \in CashFiles, s \in SecFiles :
       req' = [req EXCEPT ![r] = [pc |-> "read_cash", cash_statement |-> c,
                                  securities_statement |-> s, status_code |-> 0]]
  /\ UNCHANGED <<STATE_dict, reset, cashVars, secVars, posVars, prev, amountVars>>

\* mutant: the holdings are parsed and stored into the snapshot at the first
\* read, the other fields at the second
UploadReadCash_stores_positions(r) ==
  /\ req[r].pc = "read_cash"
  /\ req' = [req EXCEPT ![r].pc = "read_sec"]
  /\ LET sec == positions_of_bytes[req[r].securities_statement]
         old == dict_get(STATE_dict, "trade_republic")
     IN STATE_dict' =
          IF sec = Raise \/ old = None THEN STATE_dict
          ELSE dict_set(STATE_dict, "trade_republic",
                        Some([old[1] EXCEPT !.positions = sec.value[1].positions]))
  /\ UNCHANGED <<reset, cashVars, secVars, posVars, prev, amountVars>>

\* cash_bytes = await cash_statement.read()
UploadReadCash(r) ==
  /\ req[r].pc = "read_cash"
  /\ req' = [req EXCEPT ![r].pc = "read_sec"]
  /\ UNCHANGED <<STATE_dict, reset, cashVars, secVars, posVars, prev, amountVars>>

\* sec_bytes = await securities_statement.read() and the rest of the
\* handler, which has no further await
UploadReadSec(r) ==
  /\ req[r].pc = "read_sec"
  /\ LET out == upload_outcome(STATE_dict, req[r].cash_statement,
                               req[r].securities_statement) IN
       /\ STATE_dict' = out.state
       /\ req' = [req EXCEPT ![r].pc = "done", ![r].status_code = out.status_code]
  /\ UNCHANGED <<reset, cashVars, secVars, posVars, prev, amountVars>>

\* connect_fake: Salt Edge answers with the customer, or the request fails
\* before STATE is written
ConnectFake ==
  /\ \E answered \in BOOLEAN :
       STATE_dict' = IF answered
                THEN dict_set(STATE_dict, "customer_id", Some("customer_1"))
                ELSE STATE_dict
  /\ UNCHANGED <<req, reset, cashVars, secVars, posVars, prev, amountVars>>

\* reset_customer up to se_delete, or its early return
ResetCustomer ==
  /\ reset.pc \in {"idle", "returned"}
  /\ LET customer_id == dict_get(STATE_dict, "customer_id") IN
       reset' = IF customer_id = None
                THEN [pc |-> "returned", customer_id |-> None, status_code |-> 200]
                ELSE [pc |-> "se_delete", customer_id |-> customer_id,
                      status_code |-> 0]
  /\ UNCHANGED <<STATE_dict, req, cashVars, secVars, posVars, prev, amountVars>>

\* the answer of Salt Edge to se_delete and the rest of reset_customer
ResetDelete ==
  /\ reset.pc = "se_delete"
  /\ \E answer \in {"deleted", "404", "error"} :
       IF answer = "error"
       THEN /\ reset' = [reset EXCEPT !.pc = "returned", !.status_code = 500]
            /\ UNCHANGED STATE_dict
       ELSE /\ STATE_dict' = dict_set(dict_set(STATE_dict, "customer_id", None),
                                 "trade_republic", None)
            /\ reset' = [reset EXCEPT !.pc = "returned", !.status_code = 200]
  /\ UNCHANGED <<req, cashVars, secVars, posVars, prev, amountVars>>

NextUpload ==
  \/ \E r \in Requests : UploadRequest(r)
  \/ \E r \in Requests : UploadReadCash(r)
  \/ \E r \in Requests : UploadReadSec(r)
  \/ ConnectFake
  \/ ResetCustomer
  \/ ResetDelete

\* no statement is parsed outside the requests
InitUpload ==
  /\ cash_text = <<>>
  /\ sec_text = <<>>
  /\ Idle
  /\ token = ""

SpecUpload == InitUpload /\ [][NextUpload]_vars

-----------------------------------------------------------------------------
(* The amount conversion as each parser applies it *)

\* the cash parser on a balance line that carries the token
ConvertCash ==
  /\ conv.cash = Pending
  /\ conv' = [conv EXCEPT
                !.cash = parse_tr_cash_statement(
                           <<"Conto corrente " \o token \o " EUR">>)]
  /\ UNCHANGED <<token, cashVars, secVars, posVars, webVars, prev>>

\* the securities total parser on a summary line that carries the token
ConvertSecurities ==
  /\ conv.securities = Pending
  /\ conv' = [conv EXCEPT
                !.securities = parse_tr_securities_statement(
                                 <<"NUMERO DI POSIZIONI: 15 " \o token \o " EUR">>)]
  /\ UNCHANGED <<token, cashVars, secVars, posVars, webVars, prev>>

\* the position-aware parser on the same summary line
ConvertPositions ==
  /\ conv.positions = Pending
  /\ conv' = [conv EXCEPT
                !.positions = parse_tr_securities_statement_with_positions(
                                <<"NUMERO DI POSIZIONI: 15 " \o token \o " EUR">>)]
  /\ UNCHANGED <<token, cashVars, secVars, posVars, webVars, prev>>

NextAmount == ConvertCash \/ ConvertSecurities \/ ConvertPositions

\* an amount token is put before the three parsers
InitAmount ==
  /\ cash_text = <<>>
  /\ sec_text = <<>>
  /\ Idle
  /\ token \in AmountTokens

SpecAmount == InitAmount /\ [][NextAmount]_vars

-----------------------------------------------------------------------------
(* The parsers called again on the same texts, requests in between *)

\* mutant: the list of holdings outlives the call
CallAgain_keeps_positions ==
  /\ prev = None
  /\ cash_pc \in {"returned", "returned_fallback", "raised"}
  /\ pos_pc = "done"
  /\ sec_ret # Pending
  /\ prev' = Some([cash |-> cash_ret, securities |-> sec_ret, positions |-> pos_ret])
  /\ cash_pc' = "start" /\ cash_i' = 0 /\ cash_ret' = Pending
  /\ sec_ret' = Pending
  /\ pos_pc' = "start" /\ lines' = <<>> /\ total_value' = Zero /\ idx' = 0
  /\ current' = EmptyCurrent /\ pos_ret' = Pending
  /\ UNCHANGED <<positions, cash_text, sec_text, webVars, amountVars>>

\* the three parsers have returned and are called a second time on the same
\* texts: every call starts with locals of its own
CallAgain ==
  /\ prev = None
  /\ cash_pc \in {"returned", "returned_fallback", "raised"}
  /\ pos_pc = "done"
  /\ sec_ret # Pending
  /\ prev' = Some([cash |-> cash_ret, securities |-> sec_ret, positions |-> pos_ret])
  /\ cash_pc' = "start" /\ cash_i' = 0 /\ cash_ret' = Pending
  /\ sec_ret' = Pending
  /\ pos_pc' = "start" /\ lines' = <<>> /\ total_value' = Zero /\ idx' = 0
  /\ current' = EmptyCurrent /\ positions' = <<>> /\ pos_ret' = Pending
  /\ UNCHANGED <<cash_text, sec_text, webVars, amountVars>>

\* the first request slot
FirstRequest == CHOOSE r \in Requests : \A q \in Requests : r <= q

NextRepeat ==
  \/ CashConto
  \/ CashCitibank
  \/ Preprocess
  \/ ProcessLine
  \/ Finish
  \/ SecuritiesStatement
  \/ CallAgain
  \/ UploadRequest(FirstRequest)
  \/ UploadReadCash(FirstRequest)
  \/ UploadReadSec(FirstRequest)
  \/ ConnectFake
  \/ ResetCustomer
  \/ ResetDelete

\* the texts of the files are handed to the parsers directly
InitRepeat ==
  /\ cash_text \in {PdfText[f] : f \in CashFiles \cap DOMAIN PdfText}
  /\ sec_text \in {PdfText[f] : f \in SecFiles \cap DOMAIN PdfText}
  /\ Idle
  /\ token = ""

SpecRepeat == InitRepeat /\ [][NextRepeat]_vars

-----------------------------------------------------------------------------
(* Vocabulary of the properties *)

\* the line holds an identifier and is not discarded as a VAT line
IsIdentifierLine(line) == ~Contains(line, "IVA") /\ isin_search(line) # None

\* the line ends in a number
EndsInNumber(line) == \E i \in 1..Len(line) : QtyMatchAt(line, i)

\* the whole line is a number: digits, optionally "." or "," and digits
IsNumericLine(line) == QtyMatchAt(line, 1)

\* a line of a security's name: no identifier, no "IVA", no digit at its end
IsNameLine(line) ==
  /\ isin_search(line) = None
  /\ ~Contains(line, "IVA")
  /\ At(line, Len(line)) \notin Digits

\* the decimal a numeric line denotes
NumericLineValue(line) ==
  LET sep == {i \in 1..Len(line) : At(line, i) \in {".", ","}} IN
    IF sep = {} THEN Normal(DigitsVal(line), 0)
    ELSE LET p == CHOOSE i \in sep : TRUE IN
      Normal(DigitsVal(SubSeq(line, 1, p - 1) \o SubSeq(line, p + 1, Len(line))),
             Len(line) - p)

\* the elements of ls[from..to] joined by single spaces
RECURSIVE JoinSpaces(_, _, _)
JoinSpaces(ls, from, to) ==
  IF from > to THEN ""
  ELSE IF from = to THEN ls[from]
  ELSE ls[from] \o " " \o JoinSpaces(ls, from + 1, to)

\* the identifiers captured by the first n lines of ls, in order
RECURSIVE CapturedIds(_, _)
CapturedIds(ls, n) ==
  IF n = 0 THEN <<>>
  ELSE IF IsIdentifierLine(ls[n])
  THEN Append(CapturedIds(ls, n - 1), isin_search(ls[n])[1])
  ELSE CapturedIds(ls, n - 1)

\* the indices of the identifier lines of ls, in order
RECURSIVE IdLineIdx(_, _)
IdLineIdx(ls, n) ==
  IF n = 0 THEN <<>>
  ELSE IF IsIdentifierLine(ls[n]) THEN Append(IdLineIdx(ls, n - 1), n)
  ELSE IdLineIdx(ls, n - 1)

\* the lines that follow the k-th identifier line up to the next one, VAT
\* lines left out
Segment(ls, k) ==
  LET ids == IdLineIdx(ls, Len(ls))
      last == IF k < Len(ids) THEN ids[k + 1] - 1 ELSE Len(ls)
  IN {n \in (ids[k] + 1)..last : ~Contains(ls[n], "IVA")}

\* the members of a set of indices in increasing order
RECURSIVE Ascending(_)
Ascending(S) ==
  IF S = {} THEN <<>>
  ELSE LET m == CHOOSE x \in S : \A y \in S : x <= y IN
    <<m>> \o Ascending(S \ {m})

\* the lines of segment k that do not end in a number, joined by spaces
SegmentName(ls, k) ==
  LET idxs == Ascending({n \in Segment(ls, k) : ~EndsInNumber(ls[n])})
      names == [j \in 1..Len(idxs) |-> ls[idxs[j]]]
  IN JoinSpaces(names, 1, Len(names))

\* the numbers that end a line of segment k
SegmentQuantities(ls, k) ==
  {qty_value(ls[n])[1] : n \in {j \in Segment(ls, k) : EndsInNumber(ls[j])}}

\* the identifiers of a sequence of holdings
IsinsOf(pos) == [k \in 1..Len(pos) |-> pos[k].isin]

\* what a flush of the accumulator cur emits
Flushed(cur) ==
  [name |-> strip(cur.name), isin |-> cur.isin[1],
   quantity |-> IF cur.qty = None THEN Zero ELSE cur.qty[1],
   market_value |-> Zero]

\* the reconstruction loop is about to consume a line
AtLine == pos_pc = "loop" /\ idx < Len(lines)

-----------------------------------------------------------------------------
(* C1 *)

\* the stripped lines are an identifier line, name lines and a numeric line
C1_Shape ==
  /\ Len(lines) >= 2
  /\ IsIdentifierLine(lines[1])
  /\ \A j \in 2..(Len(lines) - 1) : IsNameLine(lines[j])
  /\ IsNumericLine(lines[Len(lines)])

\* C1: a text whose non-empty lines are one identifier line, k >= 0 name
\* lines and one numeric line yields exactly one holding: the identifier, the
\* name lines joined by single spaces, the value of the numeric line.
C1_OneHolding ==
  (pos_pc = "done" /\ C1_Shape) =>
    /\ pos_ret.status = "return"
    /\ pos_ret.value[1].positions =
         <<[name |-> JoinSpaces(lines, 2, Len(lines) - 1),
            isin |-> isin_search(lines[1])[1],
            quantity |-> NumericLineValue(lines[Len(lines)]),
            market_value |-> Zero]>>

\* an identifier, two different name lines and a quantity have been parsed
C1_Witness ==
  /\ pos_pc = "done"
  /\ C1_Shape
  /\ Len(lines) = 4
  /\ lines[2] # lines[3]
  /\ Len(positions) = 1
  /\ positions[1].quantity # Zero

-----------------------------------------------------------------------------
(* C2 *)

\* an identifier line that arrives while a holding is open flushes the
\* holding, resets the accumulator and opens the next holding
C2_FlushStep ==
  (AtLine /\ IsIdentifierLine(lines[idx + 1]) /\ current.isin # None) =>
    /\ positions' = Append(positions, Flushed(current))
    /\ current' = [name |-> "", isin |-> isin_search(lines[idx + 1]), qty |-> None]

\* one holding per identifier line, each with the name lines and a quantity
\* of its own segment only
C2_OwnFields ==
  pos_pc = "done" =>
    /\ Len(positions) = Len(IdLineIdx(lines, Len(lines)))
    /\ \A k \in 1..Len(positions) :
         /\ positions[k].isin = isin_search(lines[IdLineIdx(lines, Len(lines))[k]])[1]
         /\ positions[k].name = SegmentName(lines, k)
         /\ positions[k].quantity \in
              (IF SegmentQuantities(lines, k) = {} THEN {Zero}
               ELSE SegmentQuantities(lines, k))

\* C2: every identifier line met while a holding is open flushes it, resets
\* the accumulator and opens a new holding, so groups placed back to back
\* yield one holding per identifier with only its own name and quantity.
C2_BackToBack == [][C2_FlushStep]_vars /\ []C2_OwnFields

\* two groups back to back have given two holdings with different fields
C2_Witness ==
  /\ pos_pc = "done"
  /\ Len(positions) = 2
  /\ Len(lines) = 4
  /\ positions[1].isin # positions[2].isin
  /\ positions[1].name # ""
  /\ positions[1].quantity # Zero
  /\ positions[2].name = ""
  /\ positions[2].quantity = Zero

-----------------------------------------------------------------------------
(* C3 *)

\* C3: a holding open when the lines are exhausted is emitted as the last
\* element, with the fields of a flush; every identifier captured so far is
\* in the output or in the accumulator, and in the output at the end.
C3_EndFlush ==
  /\ pos_pc = "loop" =>
       CapturedIds(lines, idx) =
         IsinsOf(positions) \o (IF current.isin = None THEN <<>> ELSE current.isin)
  /\ pos_pc = "done" =>
       /\ IsinsOf(pos_ret.value[1].positions) = CapturedIds(lines, Len(lines))
       /\ current.isin # None =>
            /\ Len(positions) > 0
            /\ positions[Len(positions)] = Flushed(current)

\* the text ended on an open holding with a name, after an earlier holding
C3_Witness ==
  /\ pos_pc = "done"
  /\ Len(positions) = 2
  /\ ~IsIdentifierLine(lines[Len(lines)])
  /\ positions[2].name # ""

-----------------------------------------------------------------------------
(* C4 *)

\* C4: a line containing "IVA" leaves the accumulator and the output as
\* they are, in every state of the reconstruction loop.
C4_IvaSkipped ==
  [][(AtLine /\ Contains(lines[idx + 1], "IVA")) => UNCHANGED <<current, positions>>]_vars

\* a line with "IVA", an identifier and a trailing number has been consumed
\* while a holding was open
C4_Witness ==
  /\ pos_pc = "loop"
  /\ idx > 1
  /\ Contains(lines[idx], "IVA")
  /\ isin_search(lines[idx]) # None
  /\ EndsInNumber(lines[idx])
  /\ current.isin # None
  /\ current.name # ""

-----------------------------------------------------------------------------
(* C5 *)

\* no line of the text contains the summary marker
NoMarker(text) == \A j \in 1..Len(text) : ~Contains(text[j], "NUMERO DI POSIZIONI")

\* C5: without a "NUMERO DI POSIZIONI" line the position-aware parser returns
\* total_value 0.0 and the holdings, and the total-only parser raises.
C5_MissingTotal ==
  (sec_ret # Pending /\ NoMarker(sec_text)) =>
    /\ pos_ret.status = "return"
    /\ pos_ret.value[1].total_value = Zero
    /\ IsinsOf(pos_ret.value[1].positions) = CapturedIds(lines, Len(lines))
    /\ sec_ret = Raise

\* both parsers have run on a text with two holdings and no summary line
C5_Witness ==
  /\ sec_ret = Raise
  /\ NoMarker(sec_text)
  /\ pos_ret.status = "return"
  /\ Len(pos_ret.value[1].positions) = 2

-----------------------------------------------------------------------------
(* C10 *)

-----------------------------------------------------------------------------
(* Vocabulary of the cash and total properties *)

\* the indices of the lines of text that contain marker
MarkerLines(text, marker) == {j \in 1..Len(text) : Contains(text[j], marker)}

\* the indices of the lines of text that contain marker and an amount token
MarkerAmountLines(text, marker) ==
  {j \in MarkerLines(text, marker) : findall_amounts(text[j]) # <<>>}

Min(S) == CHOOSE x \in S : \A y \in S : x <= y

\* the digits of a token, separators dropped
RECURSIVE DigitsOf(_)
DigitsOf(tok) ==
  IF Len(tok) = 0 THEN ""
  ELSE (IF At(tok, 1) \in Digits THEN At(tok, 1) ELSE "")
         \o DigitsOf(SubSeq(tok, 2, Len(tok)))

\* the value of the rightmost amount token of a line: its digits, in
\* hundredths
RightmostAmount(line) ==
  LET amounts == findall_amounts(line) IN
    Normal(DigitsVal(DigitsOf(amounts[Len(amounts)])), 2)

CashDone == cash_pc \in {"returned", "returned_fallback", "raised"}

-----------------------------------------------------------------------------
(* C6 *)

\* the first "Conto corrente" line exists and has an amount token
C6_Pre ==
  /\ MarkerLines(cash_text, "Conto corrente") # {}
  /\ findall_amounts(cash_text[Min(MarkerLines(cash_text, "Conto corrente"))]) # <<>>

\* C6: when the first "Conto corrente" line has an amount token, the cash
\* parser returns the rightmost amount of that line, whatever "Citibank"
\* lines and later "Conto corrente" lines say.
C6_FirstConto ==
  (cash_pc # "start" /\ C6_Pre) =>
    /\ cash_pc = "returned"
    /\ cash_i = Min(MarkerLines(cash_text, "Conto corrente"))
    /\ cash_ret = Return(RightmostAmount(cash_text[cash_i]))

\* returned from a two-amount line that follows a "Citibank" amount and
\* precedes another "Conto corrente" amount
C6_Witness ==
  /\ cash_pc = "returned"
  /\ C6_Pre
  /\ cash_i = 2
  /\ Len(findall_amounts(cash_text[2])) = 2
  /\ 1 \in MarkerAmountLines(cash_text, "Citibank")
  /\ 3 \in MarkerAmountLines(cash_text, "Conto corrente")
  /\ cash_text[3] # cash_text[2]

-----------------------------------------------------------------------------
(* C7 *)

-----------------------------------------------------------------------------
(* C8 *)

\* C8: the cash parser raises exactly when no line holds "Conto corrente"
\* or "Citibank" together with an amount token; otherwise it returns one
\* balance, the rightmost amount of such a line, never a default.
C8_RaiseOrBalance ==
  /\ ~CashDone => cash_ret = Pending
  /\ CashDone =>
       /\ cash_ret = Raise <=>
            /\ MarkerAmountLines(cash_text, "Conto corrente") = {}
            /\ MarkerAmountLines(cash_text, "Citibank") = {}
       /\ cash_ret # Raise =>
            /\ cash_i \in MarkerAmountLines(cash_text, "Conto corrente")
                            \cup MarkerAmountLines(cash_text, "Citibank")
            /\ cash_ret = Return(RightmostAmount(cash_text[cash_i]))

\* raised on a text with both markers and with amounts, never on one line
C8_Witness ==
  /\ cash_ret = Raise
  /\ MarkerLines(cash_text, "Conto corrente") # {}
  /\ MarkerLines(cash_text, "Citibank") # {}
  /\ \E j \in 1..Len(cash_text) : findall_amounts(cash_text[j]) # <<>>

-----------------------------------------------------------------------------
(* C9 *)

\* C9 as stated: the total-only parser returns the rightmost amount of the
\* first marker line and raises when there is no marker line or when that
\* line has no amount token.
C9_Original ==
  sec_ret # Pending =>
    IF MarkerLines(sec_text, "NUMERO DI POSIZIONI") = {}
    THEN sec_ret = Raise
    ELSE IF findall_amounts(sec_text[Min(MarkerLines(sec_text, "NUMERO DI POSIZIONI"))]) = <<>>
    THEN sec_ret = Raise
    ELSE sec_ret =
           Return(RightmostAmount(sec_text[Min(MarkerLines(sec_text, "NUMERO DI POSIZIONI"))]))

\* C9 amended: the total-only parser returns the rightmost amount of the
\* first line that contains the marker and an amount token, and raises when
\* no line contains both.
C9_Amended ==
  sec_ret # Pending =>
    IF MarkerAmountLines(sec_text, "NUMERO DI POSIZIONI") = {}
    THEN sec_ret = Raise
    ELSE sec_ret =
           Return(RightmostAmount(sec_text[Min(MarkerAmountLines(sec_text, "NUMERO DI POSIZIONI"))]))

\* returned the second of two amounts of the marker line, with amounts on
\* an earlier line without marker and on a later marker line
C9_Witness ==
  /\ sec_ret.status = "return"
  /\ Min(MarkerAmountLines(sec_text, "NUMERO DI POSIZIONI")) = 2
  /\ Len(findall_amounts(sec_text[2])) = 2
  /\ findall_amounts(sec_text[1]) # <<>>
  /\ 3 \in MarkerAmountLines(sec_text, "NUMERO DI POSIZIONI")
  /\ sec_text[3] # sec_text[2]

-----------------------------------------------------------------------------
(* Vocabulary of the snapshot properties *)

\* what STATE holds under "trade_republic": None when the key is absent
Stored == dict_get(STATE_dict, "trade_republic")

SnapshotKeys == {"cash_eur", "securities_eur", "total_eur", "positions"}

\* the file is a PDF
IsPdf(f) == f \in DOMAIN PdfText

\* no balance can be read from the cash statement f
NoBalance ==
  {f \in DOMAIN PdfText :
     /\ MarkerAmountLines(PdfText[f], "Conto corrente") = {}
     /\ MarkerAmountLines(PdfText[f], "Citibank") = {}}

CashRaises(f) == ~IsPdf(f) \/ f \in NoBalance

\* the securities statement f cannot be read
SecRaises(f) == ~IsPdf(f)

\* the cash parser's result for the file f
UploadCash(f) == cash_of_bytes[f].value[1]

\* the position-aware parser's result for the file f
UploadSecurities(f) == positions_of_bytes[f].value[1]

\* a decimal of at most two fraction digits, in hundredths
Hundredths(x) == x.m * Pow10(2 - x.e)

\* the snapshot that belongs to the files c and s
SnapshotOf(c, s) ==
  [cash_eur |-> UploadCash(c),
   securities_eur |-> UploadSecurities(s).total_value,
   total_eur |-> Normal(Hundredths(UploadCash(c))
                          + Hundredths(UploadSecurities(s).total_value), 2),
   positions |-> UploadSecurities(s).positions]

\* the files the cash parser reads a balance from
GoodCash == {c \in CashFiles : ~CashRaises(c)}

\* the files the position-aware parser reads
GoodSec == {s \in SecFiles : ~SecRaises(s)}

\* the snapshots that belong to one pair of files
CompleteSnapshots == {SnapshotOf(c, s) : c \in GoodCash, s \in GoodSec}

\* request r ends in this step
Finishes(r) == req[r].pc = "read_sec" /\ req'[r].pc = "done"

-----------------------------------------------------------------------------
(* C11 *)

\* C11: when the cash parse or the securities parse of an upload raises,
\* STATE is after the request what it was before it (the key absent, or the
\* previous snapshot) and the response has status 500.
C11_FailedUploadKeepsSnapshot ==
  [][\A r \in Requests :
       (/\ Finishes(r)
        /\ \/ CashRaises(req[r].cash_statement)
           \/ SecRaises(req[r].securities_statement))
       => (STATE_dict' = STATE_dict /\ req'[r].status_code = 500)]_vars

\* an upload whose cash statement parses and whose securities statement does
\* not has ended while the snapshot of an earlier upload is stored
C11_Witness ==
  \E r \in Requests :
    /\ req[r].pc = "done" /\ req[r].status_code = 500
    /\ ~CashRaises(req[r].cash_statement)
    /\ SecRaises(req[r].securities_statement)
    /\ Stored # None
    /\ Stored[1].positions # <<>>

-----------------------------------------------------------------------------
(* C12 *)

\* C12: the slot holds at most one snapshot, and a successful upload leaves in
\* it exactly the cash, securities, total and positions of its own two files.
C12_UploadReplaces ==
  /\ [](Stored # None => (Len(Stored) = 1 /\ DOMAIN Stored[1] = SnapshotKeys))
  /\ [][\A r \in Requests :
          (Finishes(r) /\ req'[r].status_code = 200)
          => dict_get(STATE_dict', "trade_republic")
               = Some(SnapshotOf(req[r].cash_statement,
                                 req[r].securities_statement))]_vars

\* a successful upload has replaced a snapshot with holdings by one with
\* other holdings: the two finished uploads differ in their securities file
C12_Witness ==
  \E r, q \in Requests :
    /\ req[r].pc = "done" /\ req[r].status_code = 200
    /\ req[q].pc = "done" /\ req[q].status_code = 200
    /\ req[q].securities_statement # req[r].securities_statement
    /\ Stored = Some(SnapshotOf(req[r].cash_statement,
                                req[r].securities_statement))
    /\ Stored[1].positions # <<>>

-----------------------------------------------------------------------------
(* C13 *)

\* C13: when reset_customer returns, STATE["trade_republic"] holds no
\* snapshot, whatever the state was before the call.
C13_ResetClears ==
  [][(reset' # reset /\ reset'.pc = "returned")
       => dict_get(STATE_dict', "trade_republic") = None]_vars

-----------------------------------------------------------------------------
(* C14 *)

\* C14: a stored snapshot has total_eur = cash_eur + securities_eur, with
\* cash_eur a result of the cash parser and securities_eur and the positions
\* the result of the position-aware parser on one uploaded file.
C14_TotalIsSum ==
  Stored # None =>
    /\ Hundredths(Stored[1].total_eur)
         = Hundredths(Stored[1].cash_eur) + Hundredths(Stored[1].securities_eur)
    /\ Stored[1].cash_eur \in {UploadCash(c) : c \in GoodCash}
    /\ \E sec \in {UploadSecurities(s) : s \in GoodSec} :
         /\ Stored[1].securities_eur = sec.total_value
         /\ Stored[1].positions = sec.positions

\* a snapshot is stored whose two summands have different numbers of
\* fraction digits and are both positive
C14_Witness ==
  /\ Stored # None
  /\ Stored[1].cash_eur.m > 0 /\ Stored[1].securities_eur.m > 0
  /\ Stored[1].cash_eur.e # Stored[1].securities_eur.e

-----------------------------------------------------------------------------
(* C19 *)

\* C19: under every interleaving of upload requests the slot changes only
\* when one request writes its complete snapshot (or the reset clears it), so
\* it holds at every moment nothing or all four fields of one upload, and
\* the request that wrote last determines it.
C19_LastWriteWins ==
  /\ [](Stored # None => Stored[1] \in CompleteSnapshots)
  /\ [][dict_get(STATE_dict', "trade_republic") # Stored =>
          \/ reset' # reset /\ dict_get(STATE_dict', "trade_republic") = None
          \/ \E r \in Requests :
               /\ Finishes(r)
               /\ \A q \in Requests \ {r} : req'[q] = req[q]
               /\ dict_get(STATE_dict', "trade_republic")
                    = Some(SnapshotOf(req[r].cash_statement,
                                      req[r].securities_statement))]_vars

\* one request has written its snapshot while another one, with another
\* securities statement, is between its two reads
C19_Witness ==
  \E r, q \in Requests :
    /\ req[r].pc = "done" /\ req[r].status_code = 200
    /\ req[q].pc = "read_sec"
    /\ req[q].securities_statement # req[r].securities_statement
    /\ ~CashRaises(req[q].cash_statement)
    /\ ~SecRaises(req[q].securities_statement)
    /\ Stored = Some(SnapshotOf(req[r].cash_statement,
                                req[r].securities_statement))

-----------------------------------------------------------------------------
(* C15 *)

\* a step leaves the output alone or appends one holding at its end
C15_AppendOnly ==
  \/ positions' = positions
  \/ /\ Len(positions') = Len(positions) + 1
     /\ SubSeq(positions', 1, Len(positions)) = positions

\* the k-th holding has the identifier of the k-th identifier line, and an
\* identifier is in the output as often as identifier lines carry it
C15_Order ==
  pos_pc = "done" =>
    LET ids == IdLineIdx(lines, Len(lines)) IN
      /\ Len(positions) = Len(ids)
      /\ \A i, j \in 1..Len(positions) :
           i < j =>
             /\ ids[i] < ids[j]
             /\ isin_search(lines[ids[i]]) = Some(positions[i].isin)
             /\ isin_search(lines[ids[j]]) = Some(positions[j].isin)
      /\ \A k \in 1..Len(positions) :
           Cardinality({i \in 1..Len(positions) : positions[i].isin = positions[k].isin})
             = Cardinality({i \in 1..Len(ids) :
                              isin_search(lines[ids[i]]) = Some(positions[k].isin)})

\* C15: the holdings are in the order in which their identifier lines appear
\* in the text; the output only grows at its end, and an identifier that
\* appears again gives a further holding of its own.
C15_InOrder == [][C15_AppendOnly]_vars /\ []C15_Order

\* an identifier has come back after another one and after itself: four
\* identifier lines have given four holdings
C15_Witness ==
  /\ pos_pc = "done"
  /\ Len(positions) = 4
  /\ positions[1].isin = positions[2].isin
  /\ positions[3].isin # positions[1].isin
  /\ positions[4].isin = positions[1].isin

-----------------------------------------------------------------------------
(* C16 *)

\* the string is an identifier that the pattern matches in a line of the text
TakenFromText(isin) ==
  /\ Len(isin) = 12
  /\ \E j \in 1..Len(lines) : \E i \in 1..Len(lines[j]) :
       IsinAt(lines[j], i) /\ SubSeq(lines[j], i, i + 11) = isin

\* C16: every holding in the output, after any number of lines, has an isin
\* that is a 12-character match of the identifier pattern in a line of the
\* text, a quantity >= 0 and market_value 0.0.
C16_HoldingFields ==
  \A k \in 1..Len(positions) :
    /\ DOMAIN positions[k] = {"name", "isin", "quantity", "market_value"}
    /\ TakenFromText(positions[k].isin)
    /\ positions[k].quantity.m >= 0
    /\ positions[k].market_value = Zero

\* a holding with a positive quantity is in the output while the loop still
\* runs and another holding is open
C16_Witness ==
  /\ pos_pc = "loop"
  /\ Len(positions) = 1
  /\ positions[1].quantity.m > 0
  /\ current.isin # None
  /\ current.qty # None

-----------------------------------------------------------------------------
(* C18 *)

\* the index of the line that supplies total_value, 0 when there is none
SupplierIdx(ls) ==
  LET S == {i \in 1..Len(ls) :
              /\ Contains(ls[i], "NUMERO DI POSIZIONI")
              /\ total_regex_search(ls[i]) # None}
  IN IF S = {} THEN 0 ELSE Min(S)

\* the lines a "NUMERO DI POSIZIONI" line can be exchanged for, marker kept
MarkerVariants == {l \in TotalLines : Contains(l, "NUMERO DI POSIZIONI")}

\* C18: the "NUMERO DI POSIZIONI" line that supplies total_value contributes
\* nothing to the holdings: a text that differs from this one only in the
\* content of that line gives the same holdings.
C18_MarkerLineApart ==
  (pos_pc = "done" /\ SupplierIdx(lines) > 0) =>
    \A m \in MarkerVariants :
      parse_tr_securities_statement_with_positions(
        [lines EXCEPT ![SupplierIdx(lines)] = m]).value[1].positions = positions

-----------------------------------------------------------------------------
(* C20 *)

\* the decimal whose hundredths are the digits of the token
DigitsAsHundredths(tok) == Normal(DigitsVal(DigitsOf(tok)), 2)

\* C20: each of the three parsers turns an amount token into the value whose
\* hundredths are the integer the token's digits spell, separators removed.
C20_AmountConversion ==
  /\ conv.cash # Pending =>
       conv.cash = Return(DigitsAsHundredths(token))
  /\ conv.securities # Pending =>
       conv.securities = Return(DigitsAsHundredths(token))
  /\ conv.positions # Pending =>
       /\ conv.positions.status = "return"
       /\ conv.positions.value[1].total_value = DigitsAsHundredths(token)
  /\ Hundredths(DigitsAsHundredths(token)) = DigitsVal(DigitsOf(token))

\* the three parsers have converted a token with two groups and cents
C20_Witness ==
  /\ conv.cash # Pending /\ conv.securities # Pending /\ conv.positions # Pending
  /\ Cardinality({i \in 1..Len(token) : At(token, i) = "."}) = 2
  /\ SubSeq(token, Len(token) - 1, Len(token)) # "00"

-----------------------------------------------------------------------------
(* C17 *)

\* the second call of each parser returns what its first call returned
C17_SameResults ==
  prev # None =>
    /\ cash_ret # Pending => cash_ret = prev[1].cash
    /\ sec_ret # Pending => sec_ret = prev[1].securities
    /\ pos_ret # Pending => pos_ret = prev[1].positions

\* a step of a parser leaves STATE as it is, and a step of a request leaves
\* the parsers' locals and results as they are
C17_Apart ==
  /\ <<cashVars, secVars, posVars>>' # <<cashVars, secVars, posVars>>
       => webVars' = webVars
  /\ webVars' # webVars
       => <<cashVars, secVars, posVars>>' = <<cashVars, secVars, posVars>>

-----------------------------------------------------------------------------
(* C21 *)

\* the maximal runs of word characters of a line, as pairs of positions
WordsOf(line) ==
  {w \in (1..Len(line)) \X (1..Len(line)) :
     /\ w[1] <= w[2]
     /\ \A k \in w[1]..w[2] : At(line, k) \in WordChars
     /\ At(line, w[1] - 1) \notin WordChars
     /\ At(line, w[2] + 1) \notin WordChars}

\* 12 characters: two uppercase letters, nine uppercase letters or digits,
\* one digit
IsIdentifierWord(w) ==
  /\ Len(w) = 12
  /\ \A k \in 1..2 : At(w, k) \in UpperLetters
  /\ \A k \in 3..11 : At(w, k) \in UpperLetters \cup Digits
  /\ At(w, 12) \in Digits

\* the words of a line that are identifiers, leftmost first
IdentifierWords(line) ==
  LET ws == {w \in WordsOf(line) : IsIdentifierWord(SubSeq(line, w[1], w[2]))}
      starts == Ascending({w[1] : w \in ws})
  IN [k \in 1..Len(starts) |-> SubSeq(line, starts[k], starts[k] + 11)]

\* the examples of the identifier test
C21_Examples ==
  /\ isin_search("DE000A1EWWW0") = Some("DE000A1EWWW0")
  /\ isin_search("DE000A1EWWW") = None
  /\ isin_search("de000a1ewww0") = None
  /\ isin_search("XDE000A1EWWW0") = None
  /\ isin_search("DE000A1EWWW01") = None

\* a step of the loop on a line that is not a VAT line captures an
\* identifier exactly when a whole word of the line is one
C21_Step ==
  AtLine /\ ~Contains(lines[idx + 1], "IVA") =>
    LET ids == IdentifierWords(lines[idx + 1]) IN
      IF Len(ids) = 0
      THEN current'.isin = current.isin /\ positions' = positions
      ELSE /\ current' = [EmptyCurrent EXCEPT !.isin = Some(ids[1])]
           /\ current.isin = None => positions' = positions
           /\ current.isin # None => Len(positions') = Len(positions) + 1

\* C21: the identifier test accepts a token exactly when it is a whole word
\* of 12 characters, two uppercase letters, nine uppercase letters or digits
\* and one digit: "DE000A1EWWW0" is accepted; an 11-character token, a
\* lowercase token and a longer word that holds such a run are rejected
C21_IdentifierTest == []C21_Examples /\ [][C21_Step]_vars

\* the loop has rejected a longer word and an 11-character word and then
\* accepted an identifier
C21_Witness ==
  /\ pos_pc = "done"
  /\ lines = <<"XDE000A1EWWW0", "DE000A1EWWW", "DE000A1EWWW0">>
  /\ Len(positions) = 1
  /\ positions[1].isin = "DE000A1EWWW0"
  /\ positions[1].name = ""

-----------------------------------------------------------------------------
(* C22 *)

\* the accumulator holds an identifier
Open == current.isin # None

\* the effect of each rule on the step that consumes line
NewIdentifierOnly(line) ==
  /\ positions' = Append(positions, Flushed(current))
  /\ current' = [name |-> "", isin |-> isin_search(line), qty |-> None]

QuantityOnly(line) ==
  /\ current'.qty # None
  /\ current'.name = current.name
  /\ current'.isin = current.isin
  /\ positions' = positions

NameOnly(line) ==
  /\ current'.name = current.name \o " " \o line
  /\ current'.qty = current.qty
  /\ current'.isin = current.isin
  /\ positions' = positions

C22_Step ==
  AtLine /\ Open /\ ~Contains(lines[idx + 1], "IVA") =>
    LET line == lines[idx + 1] IN
      IF isin_search(line) # None THEN NewIdentifierOnly(line)
      ELSE IF EndsInNumber(line) THEN QuantityOnly(line)
      ELSE NameOnly(line)

\* C22: while a holding is open the checks are applied in the order new
\* identifier, quantity, name and exactly one takes effect per line: a line
\* with an identifier is handled by the identifier rule only, even when it
\* ends in digits, and a line taken as a quantity is not appended to the name
C22_Priority == [][C22_Step]_vars

\* an identifier inside a line that ends in a number has closed the open
\* holding and opened the next one, with no quantity and no name
C22_Witness ==
  /\ pos_pc = "loop"
  /\ lines = <<"DE000A1EWWW0", "14", "Buy US0000000001 7">>
  /\ idx = 3
  /\ Len(positions) = 1
  /\ positions[1].quantity = Normal(14, 0)
  /\ current = [name |-> "", isin |-> Some("US0000000001"), qty |-> None]

-----------------------------------------------------------------------------
(* C23 *)

C23_Step ==
  AtLine /\ Open /\ ~Contains(lines[idx + 1], "IVA")
    /\ isin_search(lines[idx + 1]) = None
    /\ ~IsNumericLine(lines[idx + 1])
  => NameOnly(lines[idx + 1])

\* C23: while a holding is open a line without an identifier is taken as
\* the quantity only if the entire line is a number; a line with other text
\* before a trailing number is appended to the name and leaves the quantity
\* unchanged
C23_WholeLineQuantity == [][C23_Step]_vars

-----------------------------------------------------------------------------
(* C24 *)

C24_Step ==
  AtLine /\ Open /\ current.qty # None
    /\ isin_search(lines[idx + 1]) = None
    /\ IsNumericLine(lines[idx + 1])
  => current'.qty = current.qty

\* C24: within one holding only the first quantity line counts: once a
\* quantity has been captured, a later quantity line before the next
\* identifier leaves it unchanged
C24_FirstQuantityKept == [][C24_Step]_vars

-----------------------------------------------------------------------------
(* C25 *)

\* the positions of a line where an amount followed by EUR starts
EurAmountStarts(line) == {i \in 1..Len(line) : TotalMatchAt(line, i)}

\* the value of the first amount of a line that is followed by EUR: its
\* digits, in hundredths
FirstEurAmount(line) ==
  LET i == Min(EurAmountStarts(line)) IN
    Normal(DigitsVal(DigitsOf(SubSeq(line, i, AmountEnd(line, i)))), 2)

\* the indices of the lines that contain the summary marker and an amount
\* followed by EUR
MarkerEurLines(ls) ==
  {j \in MarkerLines(ls, "NUMERO DI POSIZIONI") : EurAmountStarts(ls[j]) # {}}

\* C25 as stated: total_value is the first EUR-suffixed amount of the first
\* marker line, 0.0 when that line has none or when there is no marker line
C25_Original ==
  pos_pc # "start" =>
    IF MarkerLines(lines, "NUMERO DI POSIZIONI") = {} THEN total_value = Zero
    ELSE LET first == lines[Min(MarkerLines(lines, "NUMERO DI POSIZIONI"))] IN
      IF EurAmountStarts(first) = {} THEN total_value = Zero
      ELSE total_value = FirstEurAmount(first)

\* C25 amended: total_value is the first EUR-suffixed amount of the first
\* line that contains the marker and an EUR-suffixed amount, 0.0 when no
\* line contains both; marker lines after that line are not consulted
C25_Amended ==
  pos_pc # "start" =>
    IF MarkerEurLines(lines) = {} THEN total_value = Zero
    ELSE total_value = FirstEurAmount(lines[Min(MarkerEurLines(lines))])

\* the total is the first of the two EUR amounts of the second marker line;
\* the first marker line has no EUR amount and a third marker line has one
C25_Witness ==
  /\ pos_ret.status = "return"
  /\ lines = <<"NUMERO DI POSIZIONI 3,00",
               "NUMERO DI POSIZIONI 1,00 EUR 2,00 EUR",
               "NUMERO DI POSIZIONI: 15 62.348,68 EUR">>
  /\ pos_ret.value[1].total_value = Normal(1, 0)

-----------------------------------------------------------------------------
(* C26 *)

NotIva(line) == ~Contains(line, "IVA")

\* the lines left once those containing "IVA" are discarded
WithoutIva(ls) == SelectSeq(ls, NotIva)

\* C26: lines containing "IVA" are discarded before the total is extracted:
\* total_value is what the text gives once its "IVA" lines are removed, also
\* when such a line contains "NUMERO DI POSIZIONI" and an EUR amount
C26_IvaNeverTotal ==
  pos_pc # "start" =>
    LET kept == WithoutIva(lines) IN
      IF MarkerEurLines(kept) = {} THEN total_value = Zero
      ELSE total_value = FirstEurAmount(kept[Min(MarkerEurLines(kept))])

-----------------------------------------------------------------------------
(* C27 *)

\* until an identifier is captured the accumulator is empty and nothing is
\* emitted
C27_IdleEmpty == ~Open => current = EmptyCurrent /\ positions = <<>>

\* a line without identifier consumed while idle changes nothing
C27_Step ==
  AtLine /\ ~Open /\ isin_search(lines[idx + 1]) = None =>
    current' = current /\ positions' = positions

\* the holdings are those of the text from its first identifier line on
C27_PrefixDropped ==
  pos_pc = "done" =>
    LET ids == IdLineIdx(lines, Len(lines)) IN
      IF Len(ids) = 0 THEN positions = <<>>
      ELSE positions =
             reconstruct_from(EmptyCurrent, <<>>,
                              SubSeq(lines, ids[1], Len(lines)), 1)

\* C27: while no identifier has been captured every line without an
\* identifier, a numeric line included, is ignored: nothing is emitted, name
\* and quantity stay empty, and nothing that precedes the first identifier
\* appears in a holding
C27_IdleIgnores == []C27_IdleEmpty /\ []C27_PrefixDropped /\ [][C27_Step]_vars

\* a numeric line and a name line came before the only identifier
C27_Witness ==
  /\ pos_pc = "done"
  /\ lines = <<"14", "Apple Inc", "DE000A1EWWW0">>
  /\ positions = <<[name |-> "", isin |-> "DE000A1EWWW0", quantity |-> Zero,
                    market_value |-> Zero]>>

-----------------------------------------------------------------------------
(* C28 *)

\* the line passes both the identifier test and the trailing-number test
PassesBothTests(line) ==
  ~Contains(line, "IVA") /\ isin_search(line) # None /\ EndsInNumber(line)

\* the holdings the loop would return with the quantity test applied before
\* the identifier test
RECURSIVE QuantityFirst(_, _, _, _)
QuantityFirst(cur, pos, ls, i) ==
  IF i > Len(ls) THEN (IF cur.isin # None THEN Append(pos, Flushed(cur)) ELSE pos)
  ELSE LET st == process_line_qty_first(cur, pos, ls[i]) IN
    QuantityFirst(st.current, st.positions, ls, i + 1)

C28_Step ==
  AtLine /\ PassesBothTests(lines[idx + 1]) =>
    /\ current' = [name |-> "", isin |-> isin_search(lines[idx + 1]),
                   qty |-> None]
    /\ Open => positions' = Append(positions, Flushed(current))
    /\ ~Open => positions' = positions

\* a line that ends with an identifier passes the trailing-number test too
C28_IdentifierEndsInNumber ==
  \A n \in 1..Len(lines) :
    (Len(lines[n]) >= 12
       /\ IsinAt(lines[n], Len(lines[n]) - 11)) => EndsInNumber(lines[n])

\* the output is that of the opposite order exactly when no line after the
\* first identifier line passes both tests
C28_OrderMatters ==
  pos_pc = "done" =>
    LET ids == IdLineIdx(lines, Len(lines)) IN
      (positions = QuantityFirst(EmptyCurrent, <<>>, lines, 1))
        <=> (Len(ids) = 0
               \/ \A n \in (ids[1] + 1)..Len(lines) : ~PassesBothTests(lines[n]))

-----------------------------------------------------------------------------
(* C29 *)

\* the indices, among the first n lines, of those with an identifier word
\* and without "IVA"
HoldingLines(ls, n) ==
  {j \in 1..n : Len(IdentifierWords(ls[j])) > 0 /\ ~Contains(ls[j], "IVA")}

\* the first identifier word of each of those lines, in the order of the lines
FirstIdentifiers(ls, n) ==
  LET js == Ascending(HoldingLines(ls, n)) IN
    [k \in 1..Len(js) |-> IdentifierWords(ls[js[k]])[1]]

\* in the loop, the holdings emitted and the open one are as many as the
\* identifier lines consumed
C29_Counted ==
  pos_pc = "loop" =>
    Len(positions) + (IF Open THEN 1 ELSE 0)
      = Cardinality(HoldingLines(lines, idx))

\* the holdings returned are one per identifier line, each with the first
\* identifier of its line
C29_Returned ==
  pos_pc = "done" =>
    /\ Len(positions) = Cardinality(HoldingLines(lines, Len(lines)))
    /\ IsinsOf(positions) = FirstIdentifiers(lines, Len(lines))

\* C29: the number of holdings returned equals the number of lines that
\* contain an identifier match and do not contain "IVA"; no other line makes
\* a holding, and a line with several identifier matches yields one holding,
\* for the first match
C29_OnePerIdentifierLine == C29_Counted /\ C29_Returned

\* a line with two identifiers, a VAT line with an identifier and a name line
\* gave one holding, for the first identifier of the first line
C29_Witness ==
  /\ pos_pc = "done"
  /\ lines = <<"US0000000001 DE000A1EWWW0", "P. IVA DE000A1EWWW0", "Apple Inc">>
  /\ positions = <<[name |-> "Apple Inc", isin |-> "US0000000001",
                    quantity |-> Zero, market_value |-> Zero]>>

-----------------------------------------------------------------------------
(* C30 *)

\* the line has exactly one amount token, and optional whitespace and "EUR"
\* follow it
OneEurAmount(line) ==
  /\ Len(findall_amounts(line)) = 1
  /\ EurAmountStarts(line) # {}
  /\ LET i == Min(EurAmountStarts(line)) IN
       SubSeq(line, i, AmountEnd(line, i)) = findall_amounts(line)[1]

\* the first marker line of the text exists and is of that form
CanonicalTotal(text) ==
  /\ MarkerLines(text, "NUMERO DI POSIZIONI") # {}
  /\ OneEurAmount(text[Min(MarkerLines(text, "NUMERO DI POSIZIONI"))])

\* C30: when the first line containing "NUMERO DI POSIZIONI" has exactly one
\* amount token, followed by optional whitespace and "EUR", the total-only
\* parser and the position-aware parser return the same total
C30_ExtractorsAgree ==
  (sec_ret # Pending /\ CanonicalTotal(sec_text)) =>
    /\ pos_ret.status = "return"
    /\ sec_ret = Return(pos_ret.value[1].total_value)

\* both parsers returned 62348.68 from the first marker line; an earlier
\* line has an EUR amount without the marker and a later marker line has
\* two EUR amounts
C30_Witness ==
  /\ sec_text = <<"TOTALE 6,00 EUR", "NUMERO DI POSIZIONI: 15 62.348,68 EUR",
                  "NUMERO DI POSIZIONI 1,00 EUR 2,00 EUR">>
  /\ CanonicalTotal(sec_text)
  /\ sec_ret = Return(Normal(6234868, 2))
  /\ pos_ret.value[1].total_value = Normal(6234868, 2)

====
